---------------------------- MODULE Spec2Model ----------------------------
(***************************************************************************)
(* A model of snowoptics.py (Snowoptics, G. Picard): the co single         *)
(* scattering albedo with impurities, the KZ04 flat albedos, the slope     *)
(* geometry transforms and the sloped-terrain albedo albedo_P20_slope.     *)
(*                                                                         *)
(* Numbers.  A Python/numpy float is modelled as an exact rational         *)
(* [k |-> "num", n, d] in lowest terms (d > 0) or as NaN.  The two         *)
(* irrational functions of the code, np.sqrt and np.exp, are tabulated in  *)
(* fixed point (rounded down to tenths).  Every call is the scalar call    *)
(* (one wavelength); the array call does the same thing per element.       *)
(*                                                                         *)
(* Angles.  An input angle is a point of the unit circle with rational     *)
(* coordinates, [c, s] in fifths (0, 36.87, 53.13, 90, ... degrees).  An   *)
(* angle returned by np.arccos lies in [0, pi] and is represented by its   *)
(* cosine: arccos is a bijection of [-1, 1] onto [0, pi], so that          *)
(* arccos(x) = 0 iff x = 1 and arccos(x) >= pi/2 iff x <= 0.               *)
(*                                                                         *)
(* Outcomes.  A call returns a number, NaN, a tuple, or raises: an         *)
(* exception is the value [k |-> "raise", exc, msg] and propagates.        *)
(***************************************************************************)
EXTENDS Integers, Sequences, FiniteSets, TLC

\* pc: the position in the call of fn; args: its arguments; loc: the
\* locals of a call that takes several steps; ret: its outcome
VARIABLES pc, fn, args, ret, loc

vars == <<pc, fn, args, ret, loc>>

---------------------------------------------------------------------------
(* Bounds of the input grids. *)

\* r_difftot ranges over 0/RDen .. RDen/RDen
RDen == 2
\* fixed_flat_albedo ranges over None and 0/AlbDen .. AlbDen/AlbDen
AlbDen == 2
\* an impurities mapping holds at most MaxSpecies species
MaxSpecies == 2
\* concentrations range over 0 .. MaxContent (in tenths of kg/kg)
MaxContent == 1
\* a timeseries holds 1 .. MaxTimes spectra of 1 .. MaxWl wavelengths
MaxTimes == 2
MaxWl == 2

\* niteration=5, the default of albedo_correction_with_slope and of
\* albedo_correction_with_slope2
default_niteration == 5

---------------------------------------------------------------------------
(* Floats as exact rationals, with NaN. *)

None == [k |-> "None"]
NaN == [k |-> "nan"]

Abs(x) == IF x < 0 THEN -x ELSE x

RECURSIVE GCD(_, _)
GCD(a, b) == IF b = 0 THEN a ELSE CHOOSE g \in {GCD(b, r) : r \in {a % b}} : TRUE

\* The operators on numbers take their operands by value, as a Python
\* call does: CHOOSE r \in {e(a) : a \in {x}} : TRUE is e at the value
\* of x, the one element of a singleton.

\* the rational n/d (d # 0) in lowest terms with a positive denominator
RNum(n, d, g, sg) == [k |-> "num", n |-> sg * (n \div g), d |-> sg * (d \div g)]
R(n, d) ==
    CHOOSE r \in {RNum(a, b, GCD(Abs(a), Abs(b)), IF b < 0 THEN -1 ELSE 1) :
                     a \in {n}, b \in {d}} : TRUE

I(n) == [k |-> "num", n |-> n, d |-> 1]

IsNum(x) == x.k = "num"
IsNaN(x) == x.k = "nan"
IsRaise(x) == x.k = "raise"

Raise(exc, msg) == [k |-> "raise", exc |-> exc, msg |-> msg]

Neg(x) == IF IsNum(x) THEN [x EXCEPT !.n = -x.n] ELSE NaN

AddNum(x, y, g) == R(x.n * (y.d \div g) + y.n * (x.d \div g), (x.d \div g) * y.d)
Add(x, y) ==
    CHOOSE r \in {IF IsNum(a) /\ IsNum(b) THEN AddNum(a, b, GCD(a.d, b.d)) ELSE NaN :
                     a \in {x}, b \in {y}} : TRUE

Sub(x, y) == Add(x, Neg(y))

MulNum(x, y, g1, g2) ==
    R((x.n \div g1) * (y.n \div g2), (x.d \div g2) * (y.d \div g1))
Mul(x, y) ==
    CHOOSE r \in {IF IsNum(a) /\ IsNum(b)
                  THEN MulNum(a, b, GCD(Abs(a.n), b.d), GCD(Abs(b.n), a.d))
                  ELSE NaN : a \in {x}, b \in {y}} : TRUE

\* x / y for y # 0 (no divisor of the model's grids is zero: see the grids)
Div(x, y) ==
    CHOOSE r \in {IF IsNum(a) /\ IsNum(b) THEN Mul(a, R(b.d, b.n)) ELSE NaN :
                     a \in {x}, b \in {y}} : TRUE

\* comparisons, by the sign of the difference: every comparison with NaN
\* is false
Lt(x, y) == IsNum(x) /\ IsNum(y) /\ Sub(x, y).n < 0
Le(x, y) == IsNum(x) /\ IsNum(y) /\ Sub(x, y).n <= 0
Gt(x, y) == Lt(y, x)
Ge(x, y) == Le(y, x)
Eq(x, y) == IsNum(x) /\ IsNum(y) /\ Sub(x, y).n = 0

\* Python's max(x, 0): the first argument unless the second is greater
PyMax(x, y) == IF Gt(y, x) THEN y ELSE x

\* np.pi, here the rational 22/7
pi == R(22, 7)

\* np.sqrt in fixed point: NaN below zero, else rounded down to tenths
Sqrt(x) ==
    IF ~IsNum(x) \/ x.n < 0 THEN NaN
    ELSE LET v == (x.n * 100) \div x.d
             r == CHOOSE r \in 0..200 : r * r <= v /\ (r + 1) * (r + 1) > v
         IN R(r, 10)

\* 1000 * ln(10 / k) for k = 1 .. 10, rounded down
LnTable == <<2302, 1609, 1203, 916, 693, 510, 356, 223, 105, 0>>

\* np.exp in fixed point: exp(x) for x <= 0, rounded down to tenths
ExpNum(ks) ==
    IF ks = {} THEN I(0) ELSE R(CHOOSE k \in ks : \A j \in ks : j <= k, 10)
Exp(x) ==
    CHOOSE r \in
        {IF ~IsNum(a) THEN NaN
         ELSE CHOOSE e \in
                  {ExpNum(ks) :
                      ks \in {{k \in 1..10 : (-a.n) * 1000 <= LnTable[k] * a.d}}} :
                  TRUE : a \in {x}} : TRUE

\* the floor of a rational, an integer
Floor(x) == x.n \div x.d

\* np.mod(x, m), m > 0: x - floor(x / m) * m, in [0, m)
NpMod(x, m) ==
    IF IsNum(x) /\ IsNum(m) THEN Sub(x, Mul(I(Floor(Div(x, m))), m))
    ELSE NaN

\* np.cos and np.sin of a float in radians, in fixed point: the angle is
\* rounded to the nearest eighth of a turn (pi / 4), the value to tenths
CosTable == <<10, 7, 0, -7, -10, -7, 0, 7>>
SinTable == <<0, 7, 10, 7, 0, -7, -10, -7>>
EighthOf(x) == Floor(Add(Div(x, Div(pi, I(4))), R(1, 2))) % 8
CosRad(x) == IF IsNum(x) THEN R(CosTable[EighthOf(x) + 1], 10) ELSE NaN
SinRad(x) == IF IsNum(x) THEN R(SinTable[EighthOf(x) + 1], 10) ELSE NaN

\* floor(10^digits * r / d) for 0 <= r < d, digit by digit
RECURSIVE Frac(_, _, _)
Frac(r, d, digits) ==
    IF digits = 0 THEN 0
    ELSE CHOOSE f \in
             {(IF digits = 3 THEN 100 ELSE IF digits = 2 THEN 10 ELSE 1) * (t \div d)
                  + Frac(t % d, d, digits - 1) : t \in {10 * r}} : TRUE

\* a float keeps finitely many digits: in fixed point a value is rounded
\* down to thousandths; NaN stays NaN
Fixed(x) ==
    CHOOSE r \in
        {IF IsNum(a)
         THEN R((a.n \div a.d) * 1000 + Frac(a.n % a.d, a.d, 3), 1000)
         ELSE NaN : a \in {x}} : TRUE

\* x ** n for 0 < x <= 1 and n > 0, in fixed point: exp(n * ln(x)) with
\* ln(x) read in LnTable at x rounded down to tenths (0 below one tenth)
PowUnit(x, n) ==
    CHOOSE r \in {IF k = 0 THEN I(0) ELSE Exp(Fixed(Mul(n, R(-LnTable[k], 1000)))) :
                     k \in {(x.n * 10) \div x.d}} : TRUE

\* x ** n for x > 0 and n > 0: above 1 the reciprocal of (1/x) ** n, with
\* 10 where that reciprocal leaves the table
PowPos(x, n) ==
    IF Le(x, I(1)) THEN PowUnit(x, n)
    ELSE CHOOSE r \in {IF p.n = 0 THEN I(10) ELSE Div(I(1), p) :
                          p \in {PowUnit(Div(I(1), x), n)}} : TRUE

\* x ** n of numpy floats: exact for n = 1, n = 0 and for x = 1 and
\* x = 0 (n > 0); NaN for a negative x and a fractional n
PowNum(x, n) ==
    IF ~IsNum(x) \/ ~IsNum(n) THEN NaN
    ELSE IF n.n = 0 \/ x = I(1) THEN I(1)
    ELSE IF n = I(1) THEN x
    ELSE IF x.n = 0 /\ n.n > 0 THEN I(0)
    ELSE IF x.n < 0 THEN (IF n.d = 1
                          THEN (IF n.n % 2 = 0 THEN PowPos(Neg(x), n)
                                ELSE Neg(PowPos(Neg(x), n)))
                          ELSE NaN)
    ELSE IF n.n > 0 THEN PowPos(x, n)
    ELSE LET p == PowPos(x, Neg(n))
         IN IF p.n = 0 THEN I(10) ELSE Div(I(1), p)
Pow(x, n) == CHOOSE r \in {PowNum(a, b) : a \in {x}, b \in {n}} : TRUE

---------------------------------------------------------------------------
(* Angles. *)

\* an input angle: the point (c/5, s/5) of the unit circle
Ang(c, s) == [c |-> c, s |-> s]

Cos(a) == R(a.c, 5)
Sin(a) == R(a.s, 5)
\* np.cos(a - b)
CosDiff(a, b) == R(a.c * b.c + a.s * b.s, 25)

\* A cosine that is not rational is kept as a signed square root:
\* [k |-> "surd", sg, sq] is sg * sqrt(sq), with sq a rational that is
\* neither 0 nor 1 (those are the numbers 0, 1 and -1).
Sign(x) == IF x.n > 0 THEN 1 ELSE IF x.n < 0 THEN -1 ELSE 0
Surd(sg, sq) ==
    IF sg = 0 \/ sq.n = 0 THEN I(0)
    ELSE IF sq = I(1) THEN I(sg)
    ELSE [k |-> "surd", sg |-> sg, sq |-> sq]
IsReal(x) == x.k \in {"num", "surd"}
SgOf(x) == IF x.k = "num" THEN Sign(x) ELSE x.sg
SqOf(x) == IF x.k = "num" THEN Mul(x, x) ELSE x.sq
SMul(x, y) ==
    IF IsReal(x) /\ IsReal(y) THEN Surd(SgOf(x) * SgOf(y), Mul(SqOf(x), SqOf(y)))
    ELSE NaN
\* x / y for y # 0
SDiv(x, y) ==
    IF IsReal(x) /\ IsReal(y) THEN Surd(SgOf(x) * SgOf(y), Div(SqOf(x), SqOf(y)))
    ELSE NaN
\* x != 0: true of NaN
NotZero(x) == ~(IsReal(x) /\ SgOf(x) = 0)
\* np.clip(x, -1, 1)
Clip1(x) ==
    IF IsReal(x) /\ Gt(SqOf(x), I(1)) THEN I(SgOf(x)) ELSE x

\* np.arccos(x), -1 <= x <= 1: the angle of [0, pi] whose cosine is x
ArcCos(x) == IF IsReal(x) THEN [k |-> "angle", acos |-> x] ELSE NaN
\* np.cos of an angle returned by np.arccos
CosA(theta) == IF theta.k = "angle" THEN theta.acos ELSE NaN
\* np.sin of an angle returned by np.arccos: sqrt(1 - cos^2)
SinA(theta) ==
    IF theta.k = "angle"
    THEN Surd(1, Sub(I(1), SqOf(theta.acos)))
    ELSE NaN
\* the test lsza >= pi/2 written lsza > pi/2
GeHalfPi_strict(theta) == theta.k = "angle" /\ SgOf(theta.acos) < 0

\* theta >= pi/2 and theta > pi/2, theta returned by np.arccos (false of NaN)
GeHalfPi(theta) == theta.k = "angle" /\ SgOf(theta.acos) <= 0
GtHalfPi(theta) == theta.k = "angle" /\ SgOf(theta.acos) < 0
\* theta < 0: never, for an angle returned by np.arccos
LtZero(theta) == FALSE
\* the angle 0 and the angle of an input zenith
ZeroAngle == ArcCos(I(1))

---------------------------------------------------------------------------
(* Strings are sequences of characters, so that str.startswith and a     *)
(* slice species[5:] are computed and not looked up.                      *)

s_BC == <<"B", "C">>
s_soot == <<"s", "o", "o", "t">>
s_hulis == <<"h", "u", "l", "i", "s">>
s_dust == <<"d", "u", "s", "t">>
s_dust_ == <<"d", "u", "s", "t", "_">>
s_skiles == <<"s", "k", "i", "l", "e", "s">>
s_skiles2014 == s_skiles \o <<"2", "0", "1", "4">>
s_dust_skiles == s_dust_ \o s_skiles
s_p2016 == <<"p", "2", "0", "1", "6">>

\* str.startswith
StartsWith(str, prefix) ==
    /\ Len(str) >= Len(prefix)
    /\ SubSeq(str, 1, Len(prefix)) = prefix

\* the slice str[i:], i counted from 0 as in Python
SliceFrom(str, i) == SubSeq(str, i + 1, Len(str))

---------------------------------------------------------------------------
(* The collaborators of refractive_index.py: pure functions of the       *)
(* wavelength.  A call is recorded as <<name, formulation>> in the log   *)
(* of compute_co_single_scattering_albedo.                                *)

\* formulations MAE_dust_caponi accepts
s_libya == <<"l", "i", "b", "y", "a">>
s_pm10 == <<"p", "m", "1", "0">>
CaponiFormulations == {s_libya, s_pm10}

\* refice(wavelengths, dataset_name): the imaginary part of the ice index
refice(wavelengths, dataset_name) ==
    IF wavelengths = R(1, 700) THEN R(1, 100) ELSE R(1, 10)

\* refsoot_imag(wavelengths, enhancement_param=1)
refsoot_imag(wavelengths) == R(-1, 2)

\* refhulis_imag(wavelengths)
refhulis_imag(wavelengths) == R(1, 50)

\* refdust_imag(wavelengths, formulation): "" is the default formulation
refdust_imag(wavelengths, formulation) ==
    IF formulation = s_skiles2014 THEN R(1, 200) ELSE R(1, 100)

\* MAE_dust_caponi(wavelengths, formulation): raises ValueError on a
\* formulation it does not know
MAE_dust_caponi(wavelengths, formulation) ==
    IF formulation \notin CaponiFormulations
    THEN Raise("ValueError", "Invalid formulation")
    ELSE IF formulation = s_libya THEN I(40) ELSE I(90)

---------------------------------------------------------------------------
(* compute_co_single_scattering_albedo                                    *)

default_B == R(8, 5)
default_g == R(169, 200)
rho_ice == 917
default_density_soot == 1270

\* an entry of the impurities mapping: impurities[species] is a scalar
\* concentration or a (concentration, density) pair
Pair(content, density) == [k |-> "pair", c |-> content, dens |-> density]

\* lines 103-107: unpack impurities[species]; a scalar raises TypeError
content_of(value) == IF value.k = "pair" THEN value.c ELSE value
density_of(value) == IF value.k = "pair" THEN value.dens ELSE None

\* species_dispatch with the prefix test "dust_" ahead of "dust_skiles"
species_dispatch_prefix_first(wavelengths, species, density_impurities) ==
    LET base == [k |-> "ok", abs |-> None, MAC |-> None,
                 density |-> density_impurities, call |-> <<>>]
    IN
    IF species \in {s_soot, s_BC}
    THEN [base EXCEPT !.density = IF density_impurities = None
                                  THEN I(default_density_soot)
                                  ELSE density_impurities,
                      !.abs = refsoot_imag(wavelengths),
                      !.call = <<"refsoot_imag", <<>> >>]
    ELSE IF species = s_hulis
    THEN [base EXCEPT !.abs = refhulis_imag(wavelengths),
                      !.call = <<"refhulis_imag", <<>> >>]
    ELSE IF species = s_dust
    THEN [base EXCEPT !.abs = refdust_imag(wavelengths, <<>>),
                      !.call = <<"refdust_imag", <<>> >>]
    ELSE IF StartsWith(species, s_dust_)
    THEN LET mac == MAE_dust_caponi(wavelengths, SliceFrom(species, 5))
         IN IF IsRaise(mac)
            THEN Raise("ValueError", "Invalid species")
            ELSE [base EXCEPT !.MAC = mac,
                              !.call = <<"MAE_dust_caponi", SliceFrom(species, 5)>>]
    ELSE IF species = s_dust_skiles
    THEN [base EXCEPT !.abs = refdust_imag(wavelengths, s_skiles2014),
                      !.call = <<"refdust_imag", s_skiles2014>>]
    ELSE Raise("ValueError", "Invalid species")

\* lines 109-126: the dispatch on the species name.  Returns the
\* collaborator called, abs_impurities (or None), the MAC a caponi
\* formulation gives (or None), the density after the default, or raises.
species_dispatch(wavelengths, species, density_impurities) ==
    LET base == [k |-> "ok", abs |-> None, MAC |-> None,
                 density |-> density_impurities, call |-> <<>>]
    IN
    IF species \in {s_soot, s_BC}
    THEN [base EXCEPT !.density = IF density_impurities = None
                                  THEN I(default_density_soot)
                                  ELSE density_impurities,
                      !.abs = refsoot_imag(wavelengths),
                      !.call = <<"refsoot_imag", <<>> >>]
    ELSE IF species = s_hulis
    THEN [base EXCEPT !.abs = refhulis_imag(wavelengths),
                      !.call = <<"refhulis_imag", <<>> >>]
    ELSE IF species = s_dust
    THEN [base EXCEPT !.abs = refdust_imag(wavelengths, <<>>),
                      !.call = <<"refdust_imag", <<>> >>]
    ELSE IF species = s_dust_skiles
    THEN [base EXCEPT !.abs = refdust_imag(wavelengths, s_skiles2014),
                      !.call = <<"refdust_imag", s_skiles2014>>]
    ELSE IF StartsWith(species, s_dust_)
    THEN LET mac == MAE_dust_caponi(wavelengths, SliceFrom(species, 5))
         IN IF IsRaise(mac)
            THEN Raise("ValueError", "Invalid species")
            ELSE [base EXCEPT !.MAC = mac,
                              !.call = <<"MAE_dust_caponi", SliceFrom(species, 5)>>]
    ELSE Raise("ValueError", "Invalid species")

\* species_MAC without the test of a missing density
species_MAC_unchecked(wavelengths, disp) ==
    IF disp.abs # None
    THEN Mul(Div(Div(Mul(I(6), pi), wavelengths), disp.density),
             IF Lt(disp.abs, I(0)) THEN Neg(disp.abs) ELSE disp.abs)
    ELSE disp.MAC

\* lines 128-131: the MAC of the species, or the missing-density error
species_MAC(wavelengths, disp) ==
    IF disp.abs # None
    THEN IF disp.density = None
         THEN Raise("ValueError", "No default density for the impurities")
         ELSE Mul(Div(Div(Mul(I(6), pi), wavelengths), disp.density),
                  IF Lt(disp.abs, I(0)) THEN Neg(disp.abs) ELSE disp.abs)
    ELSE disp.MAC

\* the contribution assigned (=) instead of added (+=)
accumulate_assign(cossalb, ssa, content_impurities, MAC) ==
    Mul(Mul(Div(I(2), ssa), content_impurities), MAC)

\* line 133: cossalb += 2.0 / ssa * content_impurities * MAC
accumulate(cossalb, ssa, content_impurities, MAC) ==
    Add(cossalb, Mul(Mul(Div(I(2), ssa), content_impurities), MAC))

\* lines 101-133: the loop over the mapping, in its iteration order;
\* impurities is the sequence of its items <<species, value>>
RECURSIVE impurities_loop(_, _, _, _, _, _)
impurities_loop(wavelengths, ssa, impurities, i, cossalb, log) ==
    IF i > Len(impurities) THEN [out |-> cossalb, log |-> log]
    ELSE LET species == impurities[i][1]
             value == impurities[i][2]
             disp == species_dispatch(wavelengths, species, density_of(value))
         IN IF IsRaise(disp) THEN [out |-> disp, log |-> log]
            ELSE LET MAC == species_MAC(wavelengths, disp)
                 IN IF IsRaise(MAC)
                    THEN [out |-> MAC, log |-> Append(log, disp.call)]
                    ELSE impurities_loop(wavelengths, ssa, impurities, i + 1,
                             accumulate(cossalb, ssa, content_of(value), MAC),
                             Append(log, disp.call))

\* lines 89-96: the ice-only co single scattering albedo
ice_cossalb(wavelengths, ssa, ni, B) ==
    LET ni_ == IF ni.k = "str" THEN refice(wavelengths, ni.s) ELSE ni
        gamma == Div(Mul(Mul(I(4), pi), ni_), wavelengths)
    IN Mul(Mul(Div(I(2), Mul(ssa, I(rho_ice))), B), gamma)

\* the whole function, with the log of the collaborators it called
co_single_scattering_albedo_run(wavelengths, ssa, impurities, ni, B, g) ==
    LET cossalb == ice_cossalb(wavelengths, ssa, ni, B)
    IN IF impurities = None THEN [out |-> cossalb, log |-> <<>>]
       ELSE impurities_loop(wavelengths, ssa, impurities.items, 1, cossalb, <<>>)

compute_co_single_scattering_albedo(wavelengths, ssa, impurities, ni, B, g) ==
    co_single_scattering_albedo_run(wavelengths, ssa, impurities, ni, B, g).out

---------------------------------------------------------------------------
(* The KZ04 flat albedos.  kw carries the keyword arguments              *)
(* [impurities, ni]; B and g keep their defaults.                         *)

\* line 81: alpha from the co single scattering albedo, an exception of
\* line 79 propagating
alpha_of(cossalb, g) ==
    IF IsRaise(cossalb) THEN cossalb
    ELSE Div(Mul(R(16, 3), cossalb), Sub(I(1), g))

compute_alpha(wavelengths, ssa, kw) ==
    alpha_of(compute_co_single_scattering_albedo(
                 wavelengths, ssa, kw.impurities, kw.ni, default_B, default_g),
             default_g)

\* line 52, an exception of line 51 propagating
diffuse_R(alpha) ==
    IF IsRaise(alpha) THEN alpha
    ELSE Exp(Neg(Sqrt(alpha)))

albedo_diffuse_KZ04(wavelengths, ssa, kw) ==
    diffuse_R(compute_alpha(wavelengths, ssa, kw))

\* lines 70-71, an exception of line 68 propagating
direct_R(alpha, cos_sza) ==
    IF IsRaise(alpha) THEN alpha
    ELSE IF ~Ge(cos_sza, I(0)) THEN Raise("AssertionError", "")
    ELSE Exp(Mul(Div(Mul(Neg(Sqrt(alpha)), I(3)), I(7)),
                 Add(I(1), Mul(I(2), cos_sza))))

\* cos_sza is np.cos(sza), the caller's angle being an input angle or an
\* angle returned by np.arccos
albedo_direct_KZ04(wavelengths, cos_sza, ssa, kw) ==
    direct_R(compute_alpha(wavelengths, ssa, kw), cos_sza)

\* the mixing (1 - r) * direct + r * diffuse, an exception propagating
mix(r_difftot, direct, diffuse) ==
    IF IsRaise(direct) THEN direct
    ELSE IF IsRaise(diffuse) THEN diffuse
    ELSE Add(Mul(Sub(I(1), r_difftot), direct), Mul(r_difftot, diffuse))

albedo_KZ04(wavelengths, sza, ssa, r_difftot, kw) ==
    mix(r_difftot,
        albedo_direct_KZ04(wavelengths, Cos(sza), ssa, kw),
        albedo_diffuse_KZ04(wavelengths, ssa, kw))

---------------------------------------------------------------------------
(* The slope geometry and albedo_P20_slope.                               *)

\* lines 170-173.  sza and slope are zeniths (sin >= 0), saa and aspect
\* azimuths
local_sza(sza, saa, slope, aspect) ==
    LET mu == Add(Mul(Cos(sza), Cos(slope)),
                  Mul(Mul(Sin(sza), Sin(slope)), CosDiff(saa, aspect)))
    IN ArcCos(mu)

\* lines 176-211.  Returns the tuple (theta_i_eff, theta_v_eff, raa_eff);
\* the record also carries mu_az_denominator, the local of line 203 whose
\* zeros select the branch of np.where at lines 206-207, so that
\* properties can name the calls that take that branch.
local_viewing_angle(theta_i, phi_i, theta_v, phi_v, slope, aspect) ==
    LET mu_i0 == Add(Mul(Cos(theta_i), Cos(slope)),
                     Mul(Mul(Sin(theta_i), Sin(slope)), CosDiff(phi_i, aspect)))
        mu_i == IF Lt(mu_i0, R(1, 1000000)) THEN NaN ELSE mu_i0
        mu_v == Add(Mul(Cos(theta_v), Cos(slope)),
                    Mul(Mul(Sin(theta_v), Sin(slope)), CosDiff(phi_v, aspect)))
        theta_i_eff == ArcCos(mu_i)
        theta_v_eff0 == ArcCos(mu_v)
        theta_v_eff == IF GtHalfPi(theta_v_eff0) THEN NaN ELSE theta_v_eff0
        mu_az_numerator ==
            Sub(Add(Mul(Cos(theta_v), Cos(theta_i)),
                    Mul(Mul(Sin(theta_v), Sin(theta_i)), CosDiff(phi_v, phi_i))),
                Mul(mu_i, mu_v))
        mu_az_denominator == SMul(SinA(theta_i_eff), SinA(theta_v_eff))
        mu_az == IF NotZero(mu_az_denominator)
                 THEN SDiv(mu_az_numerator, mu_az_denominator)
                 ELSE I(0)
        raa_eff == ArcCos(Clip1(mu_az))
    IN [k |-> "tuple", theta_i_eff |-> theta_i_eff, theta_v_eff |-> theta_v_eff,
        raa_eff |-> raa_eff, mu_az_denominator |-> mu_az_denominator]

\* line 248: the truth value of fixed_flat_albedo (None and 0 are false)
Truthy(x) == x # None /\ ~Eq(x, I(0))

\* K without the division by cos(sza)
K_factor_unscaled(lsza, sza) == PyMax(CosA(lsza), I(0))

\* lines 257-259
K_factor(lsza, sza) == PyMax(Div(CosA(lsza), Cos(sza)), I(0))
V_factor(slope) == Div(Add(I(1), Cos(slope)), I(2))
M_factor(V, alb_diff) == Mul(Sub(I(1), V), alb_diff)

\* line 262: model[:-1] + 'T'
model_top_of(model) == IF model = "DM" THEN "DT" ELSE "ST"

\* line 268: the closed form of "DM" above the top-of-hill albedo
DM_coupling(albedo_top, V, r_difftot) ==
    Div(albedo_top,
        Add(Sub(I(1), Mul(Sub(I(1), V), r_difftot)),
            Mul(Div(Sub(I(1), V), V), albedo_top)))

\* SM_coupling with the terrain term subtracted
SM_coupling_minus(albedo_top, K, V, M, r_difftot, alb_loc_dir, alb_dir, alb_diff) ==
    Div(albedo_top,
        Sub(I(1),
            Mul(Sub(I(1), V),
                Add(Div(Mul(Sub(I(1), r_difftot),
                            Add(Mul(K, alb_loc_dir), Mul(M, alb_dir))),
                        Sub(I(1), Mul(M, M))),
                    Mul(r_difftot,
                        Sub(Mul(Div(V, Sub(I(1), M)), alb_diff), I(1)))))))

\* lines 275-277: the closed form of "SM" above the top-of-hill albedo
SM_coupling(albedo_top, K, V, M, r_difftot, alb_loc_dir, alb_dir, alb_diff) ==
    Div(albedo_top,
        Add(I(1),
            Mul(Sub(I(1), V),
                Add(Div(Mul(Sub(I(1), r_difftot),
                            Add(Mul(K, alb_loc_dir), Mul(M, alb_dir))),
                        Sub(I(1), Mul(M, M))),
                    Mul(r_difftot,
                        Sub(Mul(Div(V, Sub(I(1), M)), alb_diff), I(1)))))))

\* top_coupling with the diffuse fallback taken for r_difftot >= 0
top_coupling_fallback_at_zero(model, albedo_top, K, V, M, r_difftot, alb_loc_dir, alb_dir, alb_diff) ==
    IF model = "DM"
    THEN IF Gt(K, I(0))
         THEN DM_coupling(albedo_top, V, r_difftot)
         ELSE IF Ge(r_difftot, I(0))
         THEN Div(Mul(V, alb_diff), Add(I(1), M))
         ELSE NaN
    ELSE IF model = "SM"
    THEN IF Gt(K, I(0))
         THEN SM_coupling(albedo_top, K, V, M, r_difftot, alb_loc_dir, alb_dir, alb_diff)
         ELSE IF Ge(r_difftot, I(0))
         THEN alb_diff
         ELSE NaN
    ELSE Raise("RuntimeError", "should not be here")

\* lines 266-283: the coupling of the top-of-hill albedo
top_coupling(model, albedo_top, K, V, M, r_difftot, alb_loc_dir, alb_dir, alb_diff) ==
    IF model = "DM"
    THEN IF Gt(K, I(0))
         THEN DM_coupling(albedo_top, V, r_difftot)
         ELSE IF Gt(r_difftot, I(0))
         THEN Div(Mul(V, alb_diff), Add(I(1), M))
         ELSE NaN
    ELSE IF model = "SM"
    THEN IF Gt(K, I(0))
         THEN SM_coupling(albedo_top, K, V, M, r_difftot, alb_loc_dir, alb_dir, alb_diff)
         ELSE IF Gt(r_difftot, I(0))
         THEN alb_diff
         ELSE NaN
    ELSE Raise("RuntimeError", "should not be here")

\* the self-shadow test left out
self_shadow_unchecked(K) == FALSE

\* lines 294 and 302: the test K == 0 of the self-shadow
self_shadow(K) == Eq(K, I(0))

\* flat_terms with the direct albedo taken at the local SZA
flat_terms_local(alb_loc_dir, alb_dir, alb_diff) ==
    [k |-> "ok", Adir |-> alb_loc_dir, Adiff |-> alb_diff]

\* lines 304-306: Adir and Adiff of the model "flat"
flat_terms(alb_loc_dir, alb_dir, alb_diff) ==
    [k |-> "ok", Adir |-> alb_dir, Adiff |-> alb_diff]

\* lines 285-308: Adir and Adiff of the model, or the exception raised
model_terms(model, K, V, M, alb_loc_dir, alb_dir, alb_diff) ==
    IF model = "small_slope"
    THEN [k |-> "ok", Adir |-> Mul(K, alb_loc_dir), Adiff |-> alb_diff]
    ELSE IF model = "DT"
    THEN [k |-> "ok", Adir |-> Mul(Mul(V, K), alb_loc_dir),
          Adiff |-> Mul(Mul(V, V), alb_diff)]
    ELSE IF model = "DM"
    THEN IF self_shadow(K)
         THEN Raise("NotImplementedError", "Incorrect in the self-shadow")
         ELSE [k |-> "ok",
               Adir |-> Mul(Mul(Div(V, Add(I(1), M)), K), alb_loc_dir),
               Adiff |-> Mul(Div(V, Add(I(1), M)), alb_diff)]
    ELSE IF model = "ST"
    THEN [k |-> "ok",
          Adir |-> Div(Add(Mul(Mul(Add(V, Mul(M, Sub(I(1), V))), K), alb_loc_dir),
                           Mul(Add(Mul(M, V), Sub(I(1), V)), alb_dir)),
                       Sub(I(1), Mul(M, M))),
          Adiff |-> Mul(Div(V, Sub(I(1), M)), alb_diff)]
    ELSE IF model = "SM"
    THEN IF self_shadow(K)
         THEN Raise("NotImplementedError", "Incorrect in the self-shadow")
         ELSE [k |-> "ok",
               Adir |-> Add(Mul(Mul(Div(V, Add(I(1), M)), K), alb_loc_dir),
                            Mul(Div(Sub(I(1), V), Add(I(1), M)), alb_dir)),
               Adiff |-> alb_diff]
    ELSE IF model = "flat"
    THEN flat_terms(alb_loc_dir, alb_dir, alb_diff)
    ELSE Raise("ValueError", "Invalid slope model")

\* lines 310-318: the mixing and the clipping of a negative result
clip_negative(alpha) == IF Lt(alpha, I(0)) THEN NaN ELSE alpha

\* the three statements of lines 253-255 in their order: the first call
\* that raises ends the function
albedos_in_order(alb_loc_dir, alb_dir, alb_diff) ==
    IF IsRaise(alb_loc_dir) THEN alb_loc_dir
    ELSE IF IsRaise(alb_dir) THEN alb_dir
    ELSE IF IsRaise(alb_diff) THEN alb_diff
    ELSE [k |-> "ok", loc_dir |-> alb_loc_dir, dir |-> alb_dir, diff |-> alb_diff]

\* lines 248-255: the three base albedos, or the exception of the first
\* call that raises
base_albedos(a, lsza) ==
    IF Truthy(a.fixed_flat_albedo)
    THEN [k |-> "ok", loc_dir |-> a.fixed_flat_albedo,
          dir |-> a.fixed_flat_albedo, diff |-> a.fixed_flat_albedo]
    ELSE albedos_in_order(
             albedo_direct_KZ04(a.wavelengths, CosA(lsza), a.ssa, a.kwargs),
             albedo_direct_KZ04(a.wavelengths, Cos(a.sza), a.ssa, a.kwargs),
             albedo_diffuse_KZ04(a.wavelengths, a.ssa, a.kwargs))

\* lines 225-318.  a is the record of the arguments.  Returns
\* [out, nested]: the outcome and the models of the nested calls made.
RECURSIVE albedo_P20_slope_run(_)

\* lines 263-283: the outcome above the nested call's outcome top
top_of_hill(a, top, K, V, M, alb) ==
    [out |-> IF IsRaise(top.out) THEN top.out
             ELSE top_coupling(a.model, top.out, K, V, M, a.r_difftot,
                               alb.loc_dir, alb.dir, alb.diff),
     nested |-> <<model_top_of(a.model)>> \o top.nested]

\* lines 310-318 on the terms t of the model, an exception of lines
\* 285-308 propagating
mix_terms(a, t) ==
    IF IsRaise(t) THEN [out |-> t, nested |-> <<>>]
    ELSE [out |-> clip_negative(mix(a.r_difftot, t.Adir, t.Adiff)),
          nested |-> <<>>]

\* slope_model with the nested call made whatever measured_difftot is
slope_model_any_measured(a, K, V, M, alb) ==
    IF a.model \in {"DM", "SM"}
    THEN top_of_hill(a,
             albedo_P20_slope_run(
                 [a EXCEPT !.model = model_top_of(a.model),
                           !.measured_difftot = FALSE]),
             K, V, M, alb)
    ELSE mix_terms(a, model_terms(a.model, K, V, M,
                                  alb.loc_dir, alb.dir, alb.diff))

\* lines 261-318, with K, V, M and the base albedos computed
slope_model(a, K, V, M, alb) ==
    IF (~a.measured_difftot) /\ a.model \in {"DM", "SM"}
    THEN top_of_hill(a,
             albedo_P20_slope_run(
                 [a EXCEPT !.model = model_top_of(a.model),
                           !.measured_difftot = FALSE]),
             K, V, M, alb)
    ELSE mix_terms(a, model_terms(a.model, K, V, M,
                                  alb.loc_dir, alb.dir, alb.diff))

\* lines 257-259: K, V, M
slope_factors(a, lsza, V, alb) ==
    slope_model(a, K_factor(lsza, a.sza), V, M_factor(V, alb.diff), alb)

\* lines 248-318, an exception of lines 253-255 propagating
with_albedos(a, lsza, alb) ==
    IF IsRaise(alb) THEN [out |-> alb, nested |-> <<>>]
    ELSE slope_factors(a, lsza, V_factor(a.slope), alb)

\* lines 245-318
at_local_sza(a, lsza) ==
    IF GeHalfPi(lsza) \/ LtZero(lsza) THEN [out |-> NaN, nested |-> <<>>]
    ELSE with_albedos(a, lsza, base_albedos(a, lsza))

albedo_P20_slope_run(a) ==
    at_local_sza(a, local_sza(a.sza, a.saa, a.slope, a.aspect))

albedo_P20_slope(a) == albedo_P20_slope_run(a).out

---------------------------------------------------------------------------
(* The calls of albedo_P20_slope: the inputs are drawn in the initial     *)
(* state, the call is one step.                                           *)

\* solar zeniths: 0, 36.87, 53.13 and 126.87 degrees.  No float has a
\* cosine of exactly 0, so 90 degrees is not a solar zenith of the grid.
SzaGrid == {Ang(5, 0), Ang(4, 3), Ang(3, 4), Ang(-3, 4)}
\* slopes: 0, 36.87, 53.13 and 90 degrees
SlopeGrid == {Ang(5, 0), Ang(4, 3), Ang(3, 4), Ang(0, 5)}
\* azimuths: 0, 90, 180 and 270 degrees
AzimuthGrid == {Ang(5, 0), Ang(0, 5), Ang(-5, 0), Ang(0, -5)}
\* aspects of the slope of albedo_P20_slope: 0 and 90 degrees
AspectGrid == {Ang(5, 0), Ang(0, 5)}
\* wavelengths and indices are scaled together (what the formulas read is
\* ni / wavelength) so that the rationals keep small integers
WavelengthGrid == {R(1, 700), R(1, 1400)}

SlopeModels == {"flat", "small_slope", "DT", "DM", "ST", "SM"}
\* a model name the function does not know stands for all of them
ModelNames == SlopeModels \cup {"DX"}

RGrid == {R(i, RDen) : i \in 0..RDen}
FixedGrid == {None} \cup {R(i, AlbDen) : i \in 0..AlbDen}

Str(s) == [k |-> "str", s |-> s]
\* ni: the dataset name, or the value itself (one below zero: an invalid
\* index, which makes the co single scattering albedo negative)
NiGrid == {Str(s_p2016), R(-1, 1000)}
KwargsGrid == {[impurities |-> None, ni |-> x] : x \in NiGrid}

P20Args ==
    [wavelengths : {R(1, 700)}, ssa : {I(20)},
     sza : SzaGrid, saa : AzimuthGrid, slope : SlopeGrid, aspect : AspectGrid,
     r_difftot : RGrid, model : ModelNames, measured_difftot : BOOLEAN,
     fixed_flat_albedo : FixedGrid, kwargs : KwargsGrid]

SlopeInit ==
    /\ pc = "call"
    /\ fn = "albedo_P20_slope"
    /\ args \in P20Args
    /\ ret = None
    /\ loc = None

Call_albedo_P20_slope ==
    /\ pc = "call"
    /\ fn = "albedo_P20_slope"
    /\ ret' = albedo_P20_slope_run(args)
    /\ pc' = "done"
    /\ UNCHANGED <<fn, args, loc>>

SlopeNext == Call_albedo_P20_slope

SlopeSpec == SlopeInit /\ [][SlopeNext]_vars

\* the call of albedo_P20_slope has returned or raised
P20Done == pc = "done" /\ fn = "albedo_P20_slope"

---------------------------------------------------------------------------
(* Claims about albedo_P20_slope, checked under SlopeSpec.                *)

\* the local SZA of the call in the state
LszaOfCall == local_sza(args.sza, args.saa, args.slope, args.aspect)
\* the cosine of the local SZA, from the rotation formula
MuOfCall ==
    Add(Mul(Cos(args.sza), Cos(args.slope)),
        Mul(Mul(Sin(args.sza), Sin(args.slope)), CosDiff(args.saa, args.aspect)))
\* the local SZA is in the valid range [0, pi/2): its cosine is above 0
LszaValid == Gt(MuOfCall, I(0))
\* the illumination factor K = max(cos(local SZA) / cos(SZA), 0)
KOfCall ==
    LET q == Div(MuOfCall, Cos(args.sza))
    IN IF Lt(q, I(0)) THEN I(0) ELSE q
FixedGiven == Truthy(args.fixed_flat_albedo)
RaisedWith(exc) == IsRaise(ret.out) /\ ret.out.exc = exc
\* albedo_KZ04 for the wavelengths, sza, ssa, r_difftot of the call
KZ04OfCall ==
    albedo_KZ04(args.wavelengths, args.sza, args.ssa, args.r_difftot, args.kwargs)
\* the call with another model or another measured_difftot
P20With(model, measured) ==
    albedo_P20_slope([args EXCEPT !.model = model, !.measured_difftot = measured])

\* C1 as stated (for a solar zenith with cos(sza) >= 0): with model "flat" and no fixed_flat_albedo the call
\* returns what albedo_KZ04 returns for the same wavelengths, sza, ssa and
\* r_difftot, whatever slope, aspect and saa are.
C1_FlatEqualsKZ04 ==
    (P20Done /\ args.model = "flat" /\ args.fixed_flat_albedo = None
        /\ Ge(Cos(args.sza), I(0)))
        => ret.out = KZ04OfCall

\* C1 amended: with model "flat", no fixed_flat_albedo and r_difftot in
\* [0, 1] the call returns what albedo_KZ04 returns (its AssertionError
\* included) whenever the local SZA is below pi/2, and NaN when the local
\* SZA is pi/2 or more: slope, aspect and saa matter only through that test.
C1_FlatEqualsKZ04WhenLit ==
    (P20Done /\ args.model = "flat" /\ args.fixed_flat_albedo = None)
        => IF LszaValid THEN ret.out = KZ04OfCall ELSE ret.out = NaN

\* a flat call on a 53 degree slope whose local albedo differs from the
\* flat one, answered with the value of albedo_KZ04
C1_Witness ==
    /\ P20Done /\ args.model = "flat" /\ args.fixed_flat_albedo = None
    /\ args.slope = Ang(3, 4) /\ LszaValid
    /\ IsNum(ret.out) /\ ret.out = KZ04OfCall
    /\ albedo_direct_KZ04(args.wavelengths, CosA(LszaOfCall), args.ssa, args.kwargs)
         # albedo_direct_KZ04(args.wavelengths, Cos(args.sza), args.ssa, args.kwargs)

\* C3: a call with a model name outside the six always fails with a hard
\* error and never returns a value or NaN, whatever the geometry,
\* r_difftot, measured_difftot and fixed_flat_albedo are (stated here for
\* the solar zeniths with cos(sza) >= 0 only).
C3_UnknownModelRaises ==
    (P20Done /\ args.model \notin SlopeModels /\ Ge(Cos(args.sza), I(0)))
        => IsRaise(ret.out)

C5_RaisesOnlyInSelfShadow ==
    (P20Done /\ args.model \in SlopeModels)
        => /\ IsRaise(ret.out)
                => args.model \in {"DM", "SM"} /\ Eq(KOfCall, I(0))
           /\ ~LszaValid => ret.out = NaN

\* C5 amended: for a recognised model name (and keyword arguments the
\* KZ04 functions accept) the call raises in two cases only, both with a
\* local SZA in [0, pi/2) and cos(SZA) < 0, that is K clamped to 0:
\* AssertionError, from albedo_direct_KZ04, when no fixed_flat_albedo is
\* given, for every model; NotImplementedError when fixed_flat_albedo is
\* given, the model is "DM" or "SM" and measured_difftot is True.  A local
\* SZA >= pi/2 gives NaN; every other call returns a value or NaN.
C5_RaisesExactly ==
    (P20Done /\ args.model \in SlopeModels)
        => /\ IsRaise(ret.out)
                <=> /\ LszaValid /\ Lt(Cos(args.sza), I(0))
                    /\ \/ ~FixedGiven
                       \/ args.model \in {"DM", "SM"} /\ args.measured_difftot
           /\ IsRaise(ret.out)
                => /\ Eq(KOfCall, I(0))
                   /\ ret.out.exc = IF FixedGiven THEN "NotImplementedError"
                                    ELSE "AssertionError"
           /\ ~LszaValid => ret.out = NaN

\* a call with cos(SZA) < 0, a lit slope and a fixed flat albedo: K is
\* clamped to 0 and "ST" returns a number
C5_Witness ==
    /\ P20Done /\ args.model = "ST" /\ LszaValid /\ Lt(Cos(args.sza), I(0))
    /\ FixedGiven /\ Eq(KOfCall, I(0)) /\ IsNum(ret.out)

\* C6: at slope = 0 each of the six models, with measured_difftot False or
\* True, returns what model "flat" returns for the same inputs, for every
\* aspect, saa, r_difftot in [0, 1] and sza with cos(sza) > 0.
C6_ZeroSlopeAllModelsFlat ==
    (P20Done /\ args.model \in SlopeModels /\ args.slope = Ang(5, 0)
        /\ Gt(Cos(args.sza), I(0)))
        => ret.out = P20With("flat", args.measured_difftot)

\* an "SM" call through the top-of-hill path at slope 0 and an oblique sun,
\* half of the light diffuse, that returned a positive albedo
C6_Witness ==
    /\ P20Done /\ args.model = "SM" /\ ~args.measured_difftot
    /\ args.slope = Ang(5, 0) /\ args.sza = Ang(3, 4)
    /\ args.r_difftot = R(1, 2) /\ ret.nested = <<"ST">>
    /\ Gt(ret.out, I(0)) /\ ret.out = P20With("flat", FALSE)

\* C7: for each of the six models and either measured_difftot, with
\* r_difftot in [0, 1], slope in [0, pi/2) and base flat albedos in [0, 1],
\* what is returned is NaN or >= 0, also on the DM/SM top-of-hill path.
\* (Checked for every slope of the grid, the vertical one included.)
C7_NeverNegative ==
    (P20Done /\ args.model \in SlopeModels /\ Ge(Cos(args.slope), I(0))
        /\ Ge(args.r_difftot, I(0)) /\ Le(args.r_difftot, I(1))
        /\ ~IsRaise(ret.out))
        => IsNaN(ret.out) \/ Ge(ret.out, I(0))

\* an "SM" call that went through the top-of-hill path on a 53 degree
\* slope, K above 1, and returned a positive albedo
C7_Witness ==
    /\ P20Done /\ args.model = "SM" /\ ~args.measured_difftot
    /\ args.slope = Ang(3, 4) /\ Gt(KOfCall, I(1))
    /\ ret.nested = <<"ST">> /\ Gt(ret.out, I(0))

\* the top-of-hill model of the call's model
TopModelOfCall == IF args.model = "DM" THEN "DT" ELSE "ST"
\* V = (1 + cos(slope)) / 2 and the base albedos of the call
VOfCall == Div(Add(I(1), Cos(args.slope)), I(2))
AlbDiffOfCall ==
    IF FixedGiven THEN args.fixed_flat_albedo
    ELSE albedo_diffuse_KZ04(args.wavelengths, args.ssa, args.kwargs)
AlbDirOfCall ==
    IF FixedGiven THEN args.fixed_flat_albedo
    ELSE albedo_direct_KZ04(args.wavelengths, Cos(args.sza), args.ssa, args.kwargs)
AlbLocDirOfCall ==
    IF FixedGiven THEN args.fixed_flat_albedo
    ELSE albedo_direct_KZ04(args.wavelengths, MuOfCall, args.ssa, args.kwargs)
MOfCall == Mul(Sub(I(1), VOfCall), AlbDiffOfCall)
\* what the top-of-hill path is said to return: the coupling of the
\* top-of-hill albedo when K > 0, else the diffuse fallback when
\* r_difftot > 0, else NaN
TopOfHillValue ==
    IF Gt(KOfCall, I(0))
    THEN IF args.model = "DM"
         THEN DM_coupling(P20With("DT", FALSE), VOfCall, args.r_difftot)
         ELSE SM_coupling(P20With("ST", FALSE), KOfCall, VOfCall, MOfCall,
                          args.r_difftot, AlbLocDirOfCall, AlbDirOfCall,
                          AlbDiffOfCall)
    ELSE IF Gt(args.r_difftot, I(0))
    THEN IF args.model = "DM"
         THEN Div(Mul(VOfCall, AlbDiffOfCall), Add(I(1), MOfCall))
         ELSE AlbDiffOfCall
    ELSE NaN
\* the call is on the top-of-hill path: "DM" or "SM", measured_difftot
\* False, the local SZA in [0, pi/2)
OnTopOfHillPath ==
    P20Done /\ args.model \in {"DM", "SM"} /\ ~args.measured_difftot /\ LszaValid

\* C13 as stated: on the top-of-hill path the call evaluates the
\* top-of-hill model ("DT" for "DM", "ST" for "SM") and returns the coupling
\* of its albedo when K > 0, else the diffuse fallback when r_difftot > 0,
\* else NaN.
C13_TopOfHillReturns ==
    OnTopOfHillPath
        => /\ ret.nested = <<TopModelOfCall>>
           /\ ret.out = TopOfHillValue

\* C13 amended: the same, provided the base albedos are computed without
\* error (a fixed_flat_albedo is given or cos(SZA) >= 0).  Without
\* fixed_flat_albedo and with cos(SZA) < 0 (the only way to K = 0 with a
\* valid local SZA) the call raises the AssertionError of
\* albedo_direct_KZ04 before any nested call, so that the fallback and the
\* NaN branch are reached only with a fixed_flat_albedo.
C13_TopOfHillReturnsOrAsserts ==
    OnTopOfHillPath
        => IF FixedGiven \/ Ge(Cos(args.sza), I(0))
           THEN /\ ret.nested = <<TopModelOfCall>>
                /\ ret.out = TopOfHillValue
           ELSE /\ ret.nested = <<>>
                /\ RaisedWith("AssertionError")

\* a "DM" call with K = 0 and r_difftot > 0 that returned the diffuse
\* fallback V * alb_diff / (1 + M), a positive number
C13_Witness ==
    /\ OnTopOfHillPath /\ args.model = "DM" /\ Eq(KOfCall, I(0))
    /\ Gt(args.r_difftot, I(0)) /\ ret.nested = <<"DT">>
    /\ Gt(ret.out, I(0)) /\ ret.out = TopOfHillValue

\* C14: a call makes at most one nested call (recursion depth at most 1);
\* a nested call is made only for model "DM" or "SM" with measured_difftot
\* False and carries "DT" or "ST" respectively; a call with any other
\* model, or with measured_difftot True, makes none.
C14_RecursionDepthOne ==
    P20Done
        => /\ Len(ret.nested) <= 1
           /\ ret.nested # <<>>
                 => /\ args.model \in {"DM", "SM"} /\ ~args.measured_difftot
                    /\ ret.nested = <<TopModelOfCall>>
           /\ args.model \in {"DT", "ST", "flat", "small_slope"}
                 => ret.nested = <<>>

\* an "SM" call with measured_difftot False that made its one nested call,
\* with model "ST", and returned a number
C14_Witness ==
    /\ P20Done /\ args.model = "SM" /\ ~args.measured_difftot
    /\ ret.nested = <<"ST">> /\ IsNum(ret.out)

---------------------------------------------------------------------------
(* The calls of local_viewing_angle.                                      *)

\* zeniths of incidence and view: 0, 36.87, 53.13 and 90 degrees
ZenithGrid == {Ang(5, 0), Ang(4, 3), Ang(3, 4), Ang(0, 5)}

ViewArgs ==
    [theta_i : ZenithGrid, phi_i : AzimuthGrid, theta_v : ZenithGrid,
     phi_v : AzimuthGrid, slope : SlopeGrid, aspect : AzimuthGrid]

ViewInit ==
    /\ pc = "call"
    /\ fn = "local_viewing_angle"
    /\ args \in ViewArgs
    /\ ret = None
    /\ loc = None

Call_local_viewing_angle ==
    /\ pc = "call"
    /\ fn = "local_viewing_angle"
    /\ ret' = local_viewing_angle(args.theta_i, args.phi_i, args.theta_v,
                                  args.phi_v, args.slope, args.aspect)
    /\ pc' = "done"
    /\ UNCHANGED <<fn, args, loc>>

ViewNext == Call_local_viewing_angle

ViewSpec == ViewInit /\ [][ViewNext]_vars

ViewDone == pc = "done" /\ fn = "local_viewing_angle"

\* C2: whenever sin(theta_i_eff) * sin(theta_v_eff) == 0 the returned
\* relative azimuth is 0; with theta_i = theta_v = 0 and slope = 0 the
\* returned local zeniths are the true zeniths and the relative azimuth is 0.
C2_NadirRaaZero ==
    ViewDone =>
        /\ ~NotZero(ret.mu_az_denominator) => ret.raa_eff = ZeroAngle
        /\ (args.theta_i = Ang(5, 0) /\ args.theta_v = Ang(5, 0)
                /\ args.slope = Ang(5, 0))
             => /\ ret.theta_i_eff = ArcCos(Cos(args.theta_i))
                /\ ret.theta_v_eff = ArcCos(Cos(args.theta_v))
                /\ ret.raa_eff = ZeroAngle

---------------------------------------------------------------------------
(* The calls of compute_co_single_scattering_albedo.                      *)

s_dust_libya == s_dust_ \o s_libya
\* a dust formulation MAE_dust_caponi does not know, and an unknown species
s_dust_moon == s_dust_ \o <<"m", "o", "o", "n">>
s_ash == <<"a", "s", "h">>
SpeciesNames ==
    {s_BC, s_soot, s_hulis, s_dust, s_dust_skiles, s_dust_libya, s_dust_moon, s_ash}

\* concentrations, in tenths (kg/kg): the function is linear in each of
\* them, and the coarse unit keeps the denominators of the sums small
ContentGrid == {R(i, 10) : i \in 0..MaxContent}
\* impurities[species]: a scalar, (content, density) or (content, None)
ValueGrid ==
    ContentGrid \cup {Pair(c, I(1320)) : c \in ContentGrid}
        \cup {Pair(R(MaxContent, 10), None)}

RECURSIVE ItemSeqs(_)
\* the item sequences of the mappings of at most n species: the species of
\* a mapping are distinct, its order is the order of insertion
ItemSeqs(n) ==
    IF n = 0 THEN {<<>>}
    ELSE LET shorter == ItemSeqs(n - 1)
         IN shorter \cup
            {Append(q, <<sp, v>>) :
                q \in {p \in shorter : Len(p) = n - 1},
                sp \in SpeciesNames, v \in ValueGrid}

DistinctSpecies(items) ==
    \A i, j \in 1..Len(items) : i # j => items[i][1] # items[j][1]

Dict(items) == [k |-> "dict", items |-> items]
ImpuritiesGrid ==
    {None} \cup {Dict(q) : q \in {p \in ItemSeqs(MaxSpecies) : DistinctSpecies(p)}}

CossalbArgs ==
    [wavelengths : WavelengthGrid, ssa : {I(20)},
     impurities : ImpuritiesGrid, ni : {Str(s_p2016)}]

CossalbInit ==
    /\ pc = "call"
    /\ fn = "compute_co_single_scattering_albedo"
    /\ args \in CossalbArgs
    /\ ret = None
    /\ loc = None

Call_compute_co_single_scattering_albedo ==
    /\ pc = "call"
    /\ fn = "compute_co_single_scattering_albedo"
    /\ ret' = co_single_scattering_albedo_run(
                  args.wavelengths, args.ssa, args.impurities, args.ni,
                  default_B, default_g)
    /\ pc' = "done"
    /\ UNCHANGED <<fn, args, loc>>

CossalbNext == Call_compute_co_single_scattering_albedo

CossalbSpec == CossalbInit /\ [][CossalbNext]_vars

CossalbDone == pc = "done" /\ fn = "compute_co_single_scattering_albedo"

---------------------------------------------------------------------------
(* Claims about compute_co_single_scattering_albedo, under CossalbSpec.   *)

ItemsOfCall == IF args.impurities = None THEN <<>> ELSE args.impurities.items
Returned == CossalbDone /\ IsNum(ret.out)
\* the call with another mapping
CossalbWith(items) ==
    compute_co_single_scattering_albedo(
        args.wavelengths, args.ssa, Dict(items), args.ni, default_B, default_g)
IceOnly ==
    compute_co_single_scattering_albedo(
        args.wavelengths, args.ssa, None, args.ni, default_B, default_g)
Reversed(items) == [i \in 1..Len(items) |-> items[Len(items) + 1 - i]]
Without(items, i) == SubSeq(items, 1, i - 1) \o SubSeq(items, i + 1, Len(items))
\* the items with the concentration of species i set to c
WithContent(items, i, c) ==
    [items EXCEPT ![i] = <<items[i][1],
        IF items[i][2].k = "pair" THEN [items[i][2] EXCEPT !.c = c] ELSE c>>]
\* the MAC of a species of a call that returned
MACOf(item) ==
    species_MAC(args.wavelengths,
        species_dispatch(args.wavelengths, item[1], density_of(item[2])))
\* 2 / SSA * concentration * MAC, summed from the last species to the first
RECURSIVE SumOfContributions(_, _)
SumOfContributions(items, i) ==
    IF i = 0 THEN I(0)
    ELSE Add(Mul(Mul(Div(I(2), args.ssa), content_of(items[i][2])), MACOf(items[i])),
             SumOfContributions(items, i - 1))

\* C8: what is returned is the ice-only value plus the sum over the
\* species of 2/SSA * concentration * MAC; it does not depend on the order
\* of the species in the mapping; raising the concentration of one species
\* never lowers it (every MAC is >= 0); a species of concentration 0 adds
\* nothing.
C8_SumOfSpecies ==
    Returned =>
        /\ ret.out = Add(IceOnly, SumOfContributions(ItemsOfCall, Len(ItemsOfCall)))
        /\ ret.out = CossalbWith(Reversed(ItemsOfCall))
        /\ \A i \in 1..Len(ItemsOfCall) :
              /\ Ge(MACOf(ItemsOfCall[i]), I(0))
              /\ \A c \in ContentGrid :
                    Ge(c, content_of(ItemsOfCall[i][2]))
                        => Ge(CossalbWith(WithContent(ItemsOfCall, i, c)), ret.out)
              /\ CossalbWith(WithContent(ItemsOfCall, i, I(0)))
                    = CossalbWith(Without(ItemsOfCall, i))
        /\ (\A i \in 1..Len(ItemsOfCall) : Eq(content_of(ItemsOfCall[i][2]), I(0)))
              => ret.out = IceOnly

\* a mapping of two species, both with a concentration above 0, for which
\* the call returned more than the ice-only value
C8_Witness ==
    /\ Returned /\ Len(ItemsOfCall) = 2
    /\ \A i \in 1..2 : Gt(content_of(ItemsOfCall[i][2]), I(0))
    /\ ItemsOfCall[1][1] = s_dust_libya /\ ItemsOfCall[2][1] = s_BC
    /\ Gt(ret.out, IceOnly)

NoDensity(item) == density_of(item[2]) = None
\* the species whose MAC comes from an imaginary refractive index and that
\* have no default density
NeedsDensity(species) == species \in {s_hulis, s_dust, s_dust_skiles}

\* C9 as stated: if some species of the mapping has no explicit density
\* and is not "BC" or "soot", the call fails with a hard error.
C9_NoDensityFails ==
    (CossalbDone
        /\ \E i \in 1..Len(ItemsOfCall) :
              NoDensity(ItemsOfCall[i]) /\ ItemsOfCall[i][1] \notin {s_BC, s_soot})
        => IsRaise(ret.out)

\* C9 amended: if some species of the mapping has no explicit density and
\* is "hulis", "dust" or "dust_skiles" (the species whose MAC is computed
\* from a refractive index and a density), the call fails with a
\* ValueError; "BC" and "soot" default to 1270 kg/m3; a "dust_<formulation>"
\* species takes its MAC from MAE_dust_caponi and needs no density, so a
\* mapping of "BC", "soot" and known "dust_<formulation>" species without
\* densities succeeds.
C9_DensityResolved ==
    CossalbDone =>
        /\ (\E i \in 1..Len(ItemsOfCall) :
                NoDensity(ItemsOfCall[i]) /\ NeedsDensity(ItemsOfCall[i][1]))
              => RaisedWith("ValueError")
        /\ (\A i \in 1..Len(ItemsOfCall) :
                ItemsOfCall[i][1] \in {s_BC, s_soot, s_dust_libya})
              => /\ IsNum(ret.out)
                 /\ ret.out = CossalbWith(
                        [i \in 1..Len(ItemsOfCall) |->
                            IF NoDensity(ItemsOfCall[i])
                                   /\ ItemsOfCall[i][1] \in {s_BC, s_soot}
                            THEN <<ItemsOfCall[i][1],
                                   Pair(content_of(ItemsOfCall[i][2]),
                                        I(default_density_soot))>>
                            ELSE ItemsOfCall[i]])

\* the mapping {"dust": c}, no density: the call raised the density error
C9_Witness ==
    /\ CossalbDone /\ Len(ItemsOfCall) = 1
    /\ ItemsOfCall[1][1] = s_dust /\ ItemsOfCall[1][2].k = "num"
    /\ RaisedWith("ValueError")
    /\ ret.out.msg = "No default density for the impurities"

\* a name that is no species: not BC, soot, hulis, dust, dust_skiles, nor
\* dust_<formulation> with a formulation MAE_dust_caponi accepts
InvalidSpecies(species) ==
    /\ species \notin {s_BC, s_soot, s_hulis, s_dust, s_dust_skiles}
    /\ ~(StartsWith(species, s_dust_)
            /\ SliceFrom(species, 5) \in CaponiFormulations)
\* every "dust_skiles" entry that was processed went to refdust_imag with
\* the formulation skiles2014, none to MAE_dust_caponi
SkilesToRefdust ==
    /\ \A i \in 1..Len(ret.log) :
          ItemsOfCall[i][1] = s_dust_skiles
              => ret.log[i] = <<"refdust_imag", s_skiles2014>>
    /\ (IsNum(ret.out) /\ args.impurities # None)
          => Len(ret.log) = Len(ItemsOfCall)

\* C10 as stated: a mapping with an invalid species name fails with
\* ValueError "Invalid species", whatever the other species and the order;
\* "dust_skiles" goes to the dust refractive-index model.
C10_InvalidSpeciesMessage ==
    CossalbDone =>
        /\ (\E i \in 1..Len(ItemsOfCall) : InvalidSpecies(ItemsOfCall[i][1]))
              => /\ RaisedWith("ValueError")
                 /\ ret.out.msg = "Invalid species"
        /\ SkilesToRefdust

\* C10 amended: a mapping with an invalid species name fails with a
\* ValueError, whatever the other species and the order; the message is
\* "Invalid species" unless a "hulis", "dust" or "dust_skiles" entry
\* without density comes before the first invalid name, and then it is the
\* missing-density message of that entry.  "dust_skiles" goes to the dust
\* refractive-index model with the formulation skiles2014, never to
\* MAE_dust_caponi.
C10_InvalidSpeciesFails ==
    CossalbDone =>
        /\ \A i \in 1..Len(ItemsOfCall) :
              (/\ InvalidSpecies(ItemsOfCall[i][1])
               /\ \A j \in 1..(i - 1) : ~InvalidSpecies(ItemsOfCall[j][1]))
              => /\ RaisedWith("ValueError")
                 /\ ret.out.msg =
                       IF \E j \in 1..(i - 1) :
                              NoDensity(ItemsOfCall[j]) /\ NeedsDensity(ItemsOfCall[j][1])
                       THEN "No default density for the impurities"
                       ELSE "Invalid species"
        /\ SkilesToRefdust

\* a mapping whose first species is "dust_skiles" with a density and whose
\* second is an unknown dust formulation: refdust_imag was called for the
\* first and the call raised "Invalid species"
C10_Witness ==
    /\ CossalbDone /\ Len(ItemsOfCall) = 2
    /\ ItemsOfCall[1][1] = s_dust_skiles /\ ~NoDensity(ItemsOfCall[1])
    /\ ItemsOfCall[2][1] = s_dust_moon
    /\ ret.log = << <<"refdust_imag", s_skiles2014>> >>
    /\ RaisedWith("ValueError") /\ ret.out.msg = "Invalid species"

---------------------------------------------------------------------------
(* albedo_timeseries_correction.  Its angles (slope, aspect, sza, saa)    *)
(* are floats in radians, on which the code does arithmetic (negation,    *)
(* + pi, mod 2 pi): they are rationals, with np.cos and np.sin read in    *)
(* CosRad and SinRad.  A 1-D array is a sequence, a 2-D array a sequence  *)
(* of rows (time first, wavelength second); an array a function returns   *)
(* is [k |-> "array", v].                                                 *)

Array(v) == [k |-> "array", v |-> v]

\* line 380: 400e-9, 500e-9
default_wavelength_range_0 == <<R(1, 2500000), R(1, 2000000)>>
\* albedo_0=0.98
default_albedo_0 == R(49, 50)

\* lines 404 and 422: (wls >= wavelength_range_0[0]) & (wls <= wavelength_range_0[1])
band_mask(wls, wavelength_range_0) ==
    [i \in 1..Len(wls) |->
        Ge(wls[i], wavelength_range_0[1]) /\ Le(wls[i], wavelength_range_0[2])]

\* v[mask] for a boolean mask: the entries where the mask holds, in order
RECURSIVE masked(_, _, _)
masked(v, mask, i) ==
    IF i > Len(v) THEN <<>>
    ELSE (IF mask[i] THEN <<v[i]>> ELSE <<>>) \o masked(v, mask, i + 1)

\* v[mask]: numpy raises IndexError when the lengths differ
boolean_index(v, mask) ==
    IF Len(v) # Len(mask)
    THEN Raise("IndexError", "boolean index did not match indexed array")
    ELSE Array(masked(v, mask, 1))

\* v[start:], start counted from 0
tail_from(v, start) == SubSeq(v, start + 1, Len(v))

\* numpy broadcasting of two lengths along one axis: -1 stands for the
\* shapes that cannot be broadcast together
broadcast_len(a, b) ==
    IF a = -1 \/ b = -1 THEN -1
    ELSE IF a = b THEN a ELSE IF a = 1 THEN b ELSE IF b = 1 THEN a ELSE -1
\* the index of entry j of the broadcast result in an axis of length a
broadcast_at(a, j) == IF a = 1 THEN 1 ELSE j

\* lines 394-396 at time t
coslsza_at(sza, saa, slope, aspect, t) ==
    Add(Mul(CosRad(sza[t]), CosRad(slope)),
        Mul(Mul(SinRad(sza[t]), SinRad(slope)), CosRad(Sub(saa[t], aspect))))

\* line 398 at time t and column j: (1 - difftot) * K * adiff**n + difftot * adiff
model_at(coslsza, cos_sza, difftot_tj, adiff_j) ==
    Add(Mul(Mul(Sub(I(1), difftot_tj), Div(coslsza, cos_sza)),
            Pow(adiff_j, Mul(R(3, 7), Add(I(1), Mul(I(2), coslsza))))),
        Mul(difftot_tj, adiff_j))

\* line 398: the 2-D array model, of ncol columns
model_array(slope, aspect, adiff, extras, ncol) ==
    [t \in 1..Len(extras.albedo) |->
        [j \in 1..ncol |->
            model_at(coslsza_at(extras.sza, extras.saa, slope, aspect, t),
                     CosRad(extras.sza[t]),
                     extras.difftot[t][broadcast_at(Len(extras.difftot[t]), j)],
                     adiff[broadcast_at(Len(adiff), j)])]]

\* np.ravel(a - b) of two 2-D arrays with the same number of rows, the
\* columns broadcast
RECURSIVE ravel_difference(_, _, _, _)
ravel_difference(a, b, ncol, t) ==
    IF t > Len(a) THEN <<>>
    ELSE [j \in 1..ncol |-> Sub(a[t][broadcast_at(Len(a[t]), j)],
                                 b[t][broadcast_at(Len(b[t]), j)])]
         \o ravel_difference(a, b, ncol, t + 1)

\* lines 403-404: the residuals followed by the penalty
\* multiplier * (adiff[band] - albedo_0)
with_penalty(residuals, multiplier, band, albedo_0) ==
    IF IsRaise(band) THEN band
    ELSE Array(residuals \o
               [i \in 1..Len(band.v) |-> Mul(multiplier, Sub(band.v[i], albedo_0))])

\* lines 383-391: params unpacked
unpacked(slope, aspect, multiplier, adiff) ==
    [slope |-> slope, aspect |-> aspect, multiplier |-> multiplier, adiff |-> adiff]

\* lines 398-407 once params is unpacked into u; kw holds return_model and
\* constrained; ncol and nres are the broadcast numbers of columns of
\* model and of model - albedo
difference_of(u, extras, kw, env, ncol, nres) ==
    IF ncol = -1 \/ (~kw.return_model /\ nres = -1)
    THEN Raise("ValueError", "operands could not be broadcast together")
    ELSE IF kw.return_model
    THEN Array(model_array(u.slope, u.aspect, u.adiff, extras, ncol))
    ELSE IF kw.constrained
    THEN with_penalty(
             ravel_difference(model_array(u.slope, u.aspect, u.adiff, extras, ncol),
                              extras.albedo, nres, 1),
             u.multiplier,
             boolean_index(u.adiff, band_mask(extras.wls, env.wavelength_range_0)),
             env.albedo_0)
    ELSE Array(ravel_difference(model_array(u.slope, u.aspect, u.adiff, extras, ncol),
                                extras.albedo, nres, 1))

\* lines 398-407 with params unpacked: the numbers of columns
difference_with(u, extras, kw, env, ncol) ==
    difference_of(u, extras, kw, env, ncol,
                  broadcast_len(ncol, Len(extras.albedo[1])))

\* lines 382-407.  extras is (albedo, difftot, sza, saa, wls); env holds
\* the variables of the enclosing call the closure reads
\* (wavelength_range_0, albedo_0).
difference_function(params, extras, return_model, constrained, env) ==
    IF constrained
    THEN difference_with(
             unpacked(params[1], params[2], params[3], tail_from(params, 3)),
             extras, [return_model |-> return_model, constrained |-> constrained],
             env, broadcast_len(Len(params) - 3, Len(extras.difftot[1])))
    ELSE difference_with(
             unpacked(params[1], params[2], None, tail_from(params, 2)),
             extras, [return_model |-> return_model, constrained |-> constrained],
             env, broadcast_len(Len(params) - 2, Len(extras.difftot[1])))

\* np.sum(d ** 2)
RECURSIVE sum_of_squares(_, _)
sum_of_squares(v, i) ==
    IF i > Len(v) THEN I(0) ELSE Add(Mul(v[i], v[i]), sum_of_squares(v, i + 1))

sum_squared(d) == IF IsRaise(d) THEN d ELSE sum_of_squares(d.v, 1)

\* lines 409-410; kwargs holds return_model and constrained, each at the
\* default of difference_function when the caller passes none
cost_function(params, extras, kwargs, env) ==
    sum_squared(difference_function(params, extras, kwargs.return_model,
                                    kwargs.constrained, env))

\* the keyword arguments of a call that passes none
no_kwargs == [return_model |-> FALSE, constrained |-> FALSE]

\* scipy.optimize.minimize calls fun(x, *args) and leastsq func(x, *args):
\* neither passes a keyword argument.
\* lines 423-424: the objective of the constrained mode with constrained=True passed on
minimize_objective_constrained(params, extras, env) ==
    cost_function(params, extras, [no_kwargs EXCEPT !.constrained = TRUE], env)

\* lines 423-424: the objective minimize evaluates, cost_function(x, *args)
minimize_objective(params, extras, env) ==
    cost_function(params, extras, no_kwargs, env)

\* the vector whose squares minimize_objective sums
minimize_terms(params, extras, env) ==
    difference_function(params, extras, no_kwargs.return_model,
                        no_kwargs.constrained, env)

\* lines 427-428: the objective leastsq evaluates, difference_function(x, *args)
leastsq_objective(params, extras, env) ==
    difference_function(params, extras, no_kwargs.return_model,
                        no_kwargs.constrained, env)

\* lines 421-422: the 'fun' of the equality constraint,
\* params[2:][band] - albedo_0
constraint_fun(params, wavelengths, env) ==
    LET band == boolean_index(tail_from(params, 2),
                              band_mask(wavelengths, env.wavelength_range_0))
    IN IF IsRaise(band) THEN band
       ELSE Array([i \in 1..Len(band.v) |-> Sub(band.v[i], env.albedo_0)])

\* np.mean(albedo, axis=0)
RECURSIVE column_sum(_, _, _)
column_sum(a, w, t) ==
    IF t > Len(a) THEN I(0) ELSE Add(a[t][w], column_sum(a, w, t + 1))
mean_axis0(a) == [w \in 1..Len(a[1]) |-> Div(column_sum(a, w, 1), I(Len(a)))]

\* line 418
params0_of(albedo) == <<R(1, 1000), pi>> \o mean_axis0(albedo)

\* lines 379-380 and the albedo_0 of the call
env_of(a) ==
    [wavelength_range_0 |-> IF a.wavelength_range_0 = None
                            THEN default_wavelength_range_0
                            ELSE a.wavelength_range_0,
     albedo_0 |-> a.albedo_0]

\* line 388: the args handed to the optimizer
extras_of(a) ==
    [albedo |-> a.albedo, difftot |-> a.difftot, sza |-> a.sza, saa |-> a.saa,
     wls |-> a.wavelengths]

\* lines 435-439 without the half turn of the aspect
normalise_no_turn(albedo_diff, slope, aspect) ==
    [k |-> "tuple", albedo_diff |-> albedo_diff,
     slope |-> IF Lt(slope, I(0)) THEN Neg(slope) ELSE slope,
     aspect |-> NpMod(aspect, Mul(I(2), pi))]

\* lines 435-439: a negative slope is negated and the aspect turned by pi;
\* the aspect is wrapped by np.mod
normalise(albedo_diff, slope, aspect) ==
    [k |-> "tuple", albedo_diff |-> albedo_diff,
     slope |-> IF Lt(slope, I(0)) THEN Neg(slope) ELSE slope,
     aspect |-> NpMod(IF Lt(slope, I(0)) THEN Add(aspect, pi) ELSE aspect,
                      Mul(I(2), pi))]

\* lines 430-439 on the vector the optimizer returned
timeseries_return(result) ==
    normalise(tail_from(result, 2), result[1], result[2])

---------------------------------------------------------------------------
(* The calls of albedo_timeseries_correction.  The optimizer is scipy's:  *)
(* between the call and the return it evaluates the objective it was      *)
(* handed (and, in constrained mode, the constraint) at vectors of its    *)
(* choice, and it returns a vector of the shape of params0; the vectors   *)
(* are drawn from grids of finite numbers.                                *)

\* 450 nm (inside the default band) and 1000 nm (outside)
\* 450 nm (in the reference band), 1000 nm and 1500 nm
TsWavelengths == <<R(9, 20000000), R(1, 1000000), R(3, 2000000)>>
\* the wavelengths of a spectrum are increasing
WavelengthSeqs(W) ==
    {[w \in 1..W |-> TsWavelengths[s[w]]] :
        s \in {s \in [1..W -> 1..Len(TsWavelengths)] :
                  \A i \in 1..W : \A j \in 1..W : i < j => s[i] < s[j]}}
TsShapes == {<<T, W>> : T \in 1..MaxTimes, W \in 1..MaxWl}
\* a series of spectra: bright (all 1), dark (all 1/2), or bright and
\* dark in turn
Spectra(T, W) ==
    {[t \in 1..T |-> [w \in 1..W |-> I(1)]],
     [t \in 1..T |-> [w \in 1..W |-> R(1, 2)]],
     [t \in 1..T |-> [w \in 1..W |-> IF t % 2 = 1 THEN I(1) ELSE R(1, 2)]]}
\* the sun at zenith all along, or alternating between zenith and pi/4
SzaSeries(T) ==
    {[t \in 1..T |-> I(0)],
     [t \in 1..T |-> IF t % 2 = 1 THEN I(0) ELSE Div(pi, I(4))]}

TsArgsOf(T, W) ==
    [wavelengths : WavelengthSeqs(W),
     albedo : Spectra(T, W),
     difftot : {[t \in 1..T |-> [w \in 1..W |-> d]] : d \in {I(0), R(1, 2)}},
     sza : SzaSeries(T),
     saa : {[t \in 1..T |-> I(0)]},
     constrained : BOOLEAN,
     wavelength_range_0 : {None},
     albedo_0 : {default_albedo_0}]

\* vectors at which the optimizer evaluates, for W wavelengths
EvalParams(W) ==
    {<<s, a>> \o ad : s \in {R(1, 1000), Div(pi, I(4))}, a \in {pi, I(0)},
                      ad \in {[w \in 1..W |-> R(1, 2)], [w \in 1..W |-> I(1)]}}
\* vectors the optimizer returns: slopes -pi/4, 0, pi/4, aspects
\* -pi/4, pi, 9 pi/4, and a flat or a rising diffuse albedo
ResultParams(W) ==
    {<<s, a>> \o ad : s \in {Neg(Div(pi, I(4))), I(0), Div(pi, I(4))},
                      a \in {Neg(Div(pi, I(4))), pi, Mul(I(9), Div(pi, I(4)))},
                      ad \in {[w \in 1..W |-> R(1, 2)],
                              [w \in 1..W |-> R(w, W + 1)]}}

TimeseriesInit ==
    /\ pc = "call"
    /\ fn = "albedo_timeseries_correction"
    /\ \E shape \in TsShapes : args \in TsArgsOf(shape[1], shape[2])
    /\ ret = None
    /\ loc = None

\* lines 379-428 up to the call of the optimizer: minimize with the
\* constraint in constrained mode, leastsq otherwise
Call_albedo_timeseries_correction ==
    /\ pc = "call"
    /\ fn = "albedo_timeseries_correction"
    /\ loc' = [params0 |-> params0_of(args.albedo),
               optimizer |-> IF args.constrained THEN "minimize" ELSE "leastsq",
               last |-> None, result |-> None]
    /\ pc' = "optimizing"
    /\ UNCHANGED <<fn, args, ret>>

\* what one evaluation by the optimizer at params gives: the value of the
\* objective, the vector of difference_function behind it, and the value
\* of the constraint
evaluation(optimizer, params, a) ==
    [params |-> params,
     value |-> IF optimizer = "minimize"
               THEN minimize_objective(params, extras_of(a), env_of(a))
               ELSE leastsq_objective(params, extras_of(a), env_of(a)),
     terms |-> IF optimizer = "minimize"
               THEN minimize_terms(params, extras_of(a), env_of(a))
               ELSE leastsq_objective(params, extras_of(a), env_of(a)),
     eq |-> IF optimizer = "minimize"
            THEN constraint_fun(params, a.wavelengths, env_of(a))
            ELSE None]

\* the optimizer evaluates at params0 or at another vector; an exception
\* of the objective ends the call.  The evaluations of a run do not
\* depend on each other and loc keeps one of them (last): a run of the
\* model makes that one.
Optimizer_evaluates_at(e) ==
    IF IsRaise(e.value)
    THEN /\ pc' = "done"
         /\ ret' = e.value
         /\ loc' = [loc EXCEPT !.last = e]
    ELSE /\ loc' = [loc EXCEPT !.last = e]
         /\ UNCHANGED <<pc, ret>>

Optimizer_evaluates ==
    /\ pc = "optimizing"
    /\ fn = "albedo_timeseries_correction"
    /\ loc.last = None
    /\ \E params \in EvalParams(Len(args.wavelengths)) \cup {loc.params0} :
           Optimizer_evaluates_at(evaluation(loc.optimizer, params, args))
    /\ UNCHANGED <<fn, args>>

\* lines 425-439: the optimizer returns a vector of the shape of params0
\* and the function normalises it
Optimizer_returns ==
    /\ pc = "optimizing"
    /\ fn = "albedo_timeseries_correction"
    /\ loc.last # None
    /\ \E result \in ResultParams(Len(loc.params0) - 2) :
           /\ loc' = [loc EXCEPT !.last = None, !.result = result]
           /\ ret' = timeseries_return(result)
    /\ pc' = "done"
    /\ UNCHANGED <<fn, args>>

TimeseriesNext ==
    \/ Call_albedo_timeseries_correction
    \/ Optimizer_evaluates
    \/ Optimizer_returns

TimeseriesSpec == TimeseriesInit /\ [][TimeseriesNext]_vars

TsDone == pc = "done" /\ fn = "albedo_timeseries_correction"

\* the call returned (the optimizer gave the vector loc.result)
TsReturned == TsDone /\ loc.result # None
TwoPi == Mul(I(2), pi)
\* y is x wrapped into [0, 2 pi): in range, and a whole number of turns
\* away from x
WrappedFrom(y, x) ==
    /\ Ge(y, I(0)) /\ Lt(y, TwoPi)
    /\ Div(Sub(x, y), TwoPi).d = 1

\* C11: whatever vector the optimizer returns, the returned slope is >= 0
\* and the returned aspect is in [0, 2 pi): a negative fitted slope s with
\* aspect a comes back as (-s, (a + pi) mod 2 pi), a non-negative one
\* unchanged with a mod 2 pi; the returned diffuse albedo is the fitted
\* vector from index 2 on, one entry per wavelength, in both modes.
C11_SlopeAspectNormalised ==
    TsReturned
        => /\ Ge(ret.slope, I(0))
           /\ IF Lt(loc.result[1], I(0))
              THEN /\ ret.slope = Neg(loc.result[1])
                   /\ WrappedFrom(ret.aspect, Add(loc.result[2], pi))
              ELSE /\ ret.slope = loc.result[1]
                   /\ WrappedFrom(ret.aspect, loc.result[2])
           /\ Len(ret.albedo_diff) = Len(args.wavelengths)
           /\ \A w \in 1..Len(args.wavelengths) :
                  ret.albedo_diff[w] = loc.result[w + 2]

\* a constrained call whose optimizer returned the slope -pi/4 with the
\* aspect 9 pi/4: it returns the slope pi/4 with the aspect 5 pi/4
C11_Witness ==
    /\ TsReturned /\ args.constrained /\ Len(args.wavelengths) = 2
    /\ loc.result[1] = Neg(Div(pi, I(4)))
    /\ loc.result[2] = Mul(I(9), Div(pi, I(4)))
    /\ ret.slope = Div(pi, I(4))
    /\ ret.aspect = Mul(I(5), Div(pi, I(4)))

\* the optimizer has evaluated the objective (at loc.last.params)
TsEvaluated ==
    fn = "albedo_timeseries_correction" /\ loc # None /\ loc.last # None
NTimes == Len(args.albedo)
NWl == Len(args.wavelengths)
\* the wavelengths of the reference band 400-500 nm
BandOfCall ==
    {w \in 1..NWl : Ge(args.wavelengths[w], R(1, 2500000))
                    /\ Le(args.wavelengths[w], R(1, 2000000))}
\* model minus observation at time t and wavelength w, for the vector
\* (slope, aspect, adiff...) evaluated
ResidualAt(t, w) ==
    LET p == loc.last.params
        mu == coslsza_at(args.sza, args.saa, p[1], p[2], t)
    IN Sub(model_at(mu, CosRad(args.sza[t]), args.difftot[t][w], p[w + 2]),
           args.albedo[t][w])
\* the vector behind the objective is the residuals over all time x
\* wavelength samples, time first, and nothing else
ResidualsOnly ==
    /\ loc.last.terms.k = "array"
    /\ Len(loc.last.terms.v) = NTimes * NWl
    /\ \A t \in 1..NTimes : \A w \in 1..NWl :
           loc.last.terms.v[(t - 1) * NWl + w] = ResidualAt(t, w)

\* C12 as stated: in constrained mode the vector behind the objective
\* holds, after the residuals, one penalty entry per wavelength of the
\* reference band; in unconstrained mode it holds the residuals only.
C12_PenaltyInObjective ==
    TsEvaluated
        => IF args.constrained
           THEN /\ loc.last.terms.k = "array"
                /\ Len(loc.last.terms.v) = NTimes * NWl + Cardinality(BandOfCall)
           ELSE ResidualsOnly

\* C12 amended: in both modes the objective handed to the optimizer is
\* made of the residuals only (minimize gets the sum of their squares,
\* leastsq the vector); in constrained mode the equality on the reference
\* band, params[2:][band] - albedo_0, is handed to minimize as a
\* constraint, beside the objective, and there is no multiplier.
C12_ResidualsOnlyConstraintAside ==
    TsEvaluated
        => /\ ResidualsOnly
           /\ IF args.constrained
              THEN /\ loc.optimizer = "minimize"
                   /\ loc.last.value = sum_of_squares(loc.last.terms.v, 1)
                   /\ loc.last.eq.k = "array"
                   /\ Len(loc.last.eq.v) = Cardinality(BandOfCall)
                   /\ \A i \in 1..Len(loc.last.eq.v) :
                          \E w \in BandOfCall :
                              loc.last.eq.v[i] =
                                  Sub(loc.last.params[w + 2], args.albedo_0)
              ELSE /\ loc.optimizer = "leastsq"
                   /\ loc.last.value = loc.last.terms
                   /\ loc.last.eq = None

\* a constrained call of two spectra of two wavelengths, one of them in
\* the band, whose objective was evaluated at a vector that misses the
\* target: four residuals, a positive cost, one constraint value
C12_Witness ==
    /\ TsEvaluated /\ args.constrained /\ NTimes = 2 /\ NWl = 2
    /\ Cardinality(BandOfCall) = 1
    /\ Len(loc.last.terms.v) = 4
    /\ Gt(loc.last.value, I(0))
    /\ Len(loc.last.eq.v) = 1 /\ loc.last.eq.v[1] # I(0)

---------------------------------------------------------------------------
(* albedo_correction_with_slope, albedo_correction_with_slope2 and        *)
(* albedo_correction_without_slope.  Spectra are sequences, one entry per *)
(* wavelength; the operations act entry by entry as numpy does.           *)

s_with_slope == "albedo_correction_with_slope"
s_with_slope2 == "albedo_correction_with_slope2"
s_without_slope == "albedo_correction_without_slope"

\* np.minimum and np.maximum on two floats: NaN propagates
np_minimum(x, y) ==
    IF ~IsNum(x) \/ ~IsNum(y) THEN NaN ELSE IF Lt(y, x) THEN y ELSE x
np_maximum(x, y) ==
    IF ~IsNum(x) \/ ~IsNum(y) THEN NaN ELSE IF Gt(y, x) THEN y ELSE x

\* lines 342 and 355: n = 3. / 7 * (1 + 2 * K * np.cos(sza))
n_of(K, sza) == Mul(R(3, 7), Add(I(1), Mul(Mul(I(2), K), CosRad(sza))))

\* lines 344 and 357: np.minimum(albedo, 1)
first_guess(albedo) == [j \in 1..Len(albedo) |-> np_minimum(albedo[j], I(1))]

\* * and / of floats in fixed point
FMul(x, y) == Fixed(Mul(x, y))
FDiv(x, y) == Fixed(Div(x, y))

\* line 346 on one entry
update_with_slope_at(albedo, difftot, K, n, albedo_diff) ==
    FDiv(Sub(albedo, FMul(FMul(Sub(I(1), difftot), K),
                          Sub(Pow(albedo_diff, n), albedo_diff))),
         Add(difftot, FMul(Sub(I(1), difftot), K)))

\* line 359 on one entry
update_with_slope2_at(albedo, difftot, K, n, albedo_diff) ==
    Pow(FDiv(Sub(albedo, FMul(difftot, Sub(albedo_diff, Pow(albedo_diff, n)))),
             Add(FMul(Sub(I(1), difftot), K), difftot)),
        Div(I(1), n))

\* lines 346 and 359: the update of the function running the loop
update(f) ==
    [j \in 1..Len(f.albedo) |->
        IF f.callee = s_with_slope
        THEN update_with_slope_at(f.albedo[j], f.difftot[j], f.K, f.n,
                                  f.albedo_diff[j])
        ELSE update_with_slope2_at(f.albedo[j], f.difftot[j], f.K, f.n,
                                   f.albedo_diff[j])]

\* lines 347 and 360 with the clamp left out
clamp_none(v) == v

\* lines 347 and 360: np.maximum(albedo_diff, 0)
clamp(v) == [j \in 1..Len(v) |-> np_maximum(v[j], I(0))]

\* lines 345 and 358: range(niteration) has a next value after i values
range_has_next(i, niteration) == i < niteration

\* lines 349 and 362: albedo_diff, albedo_diff**n
correction_return(f) ==
    [k |-> "tuple", albedo_diff |-> f.albedo_diff,
     albedo_model |-> [j \in 1..Len(f.albedo_diff) |-> Pow(f.albedo_diff[j], f.n)]]

\* the frame of albedo_correction_with_slope(2) at the head of its loop:
\* lines 342-344 and 355-357.  unclamped keeps the value lines 346 and 359
\* assigned to albedo_diff in the last pass, before lines 347 and 360
\* replaced it.
frame(callee, albedo, difftot, sza, K, niteration) ==
    [callee |-> callee, albedo |-> albedo, difftot |-> difftot, sza |-> sza,
     K |-> K, niteration |-> niteration, n |-> n_of(K, sza),
     albedo_diff |-> first_guess(albedo), unclamped |-> None, i |-> 0]

\* lines 346-347 and 359-360: one pass, raw being the value of the update
pass(f, raw) ==
    [f EXCEPT !.unclamped = raw, !.albedo_diff = clamp(raw), !.i = f.i + 1]

\* line 333: (wavelengths > 400e-9) & (wavelengths < 550e-9)
visible_mask(wavelengths) ==
    [j \in 1..Len(wavelengths) |->
        Gt(wavelengths[j], R(1, 2500000)) /\ Lt(wavelengths[j], R(11, 20000000))]

\* line 335: the sums over the masked entries, from entry j on
RECURSIVE K_numerator(_, _, _, _, _)
K_numerator(albedo, difftot, mask, albedo_0, j) ==
    IF j > Len(albedo) THEN I(0)
    ELSE Add(IF mask[j]
             THEN Mul(Sub(I(1), Mul(difftot[j], albedo_0)),
                      Sub(albedo[j], difftot[j]))
             ELSE I(0),
             K_numerator(albedo, difftot, mask, albedo_0, j + 1))

RECURSIVE K_denominator(_, _, _, _)
K_denominator(difftot, mask, power, j) ==
    IF j > Len(difftot) THEN I(0)
    ELSE Add(IF mask[j]
             THEN Mul(Mul(Sub(I(1), difftot[j]), Sub(I(1), difftot[j])), power)
             ELSE I(0),
             K_denominator(difftot, mask, power, j + 1))

\* the quotient of line 335: 0. / 0. (an empty mask) is NaN; the grids
\* give no other zero divisor
K_quotient(num, den) ==
    CHOOSE r \in {IF d.n = 0 THEN NaN ELSE FDiv(m, d) : m \in {num}, d \in {den}} : TRUE

\* lines 332-335: K
K_estimate(a) ==
    K_quotient(
        K_numerator(a.albedo, a.difftot, visible_mask(a.wavelengths), a.albedo_0, 1),
        K_denominator(a.difftot, visible_mask(a.wavelengths),
                      Pow(a.albedo_0, n_of(I(1), a.sza)), 1))

---------------------------------------------------------------------------
(* The calls of the three correction functions.  loc is the frame of the  *)
(* function running the loop; loc.i counts the updates made.              *)

\* (albedo, difftot) of one wavelength; K > 0, so that no divisor
\* difftot + (1 - difftot) * K is zero
EntryGrid ==
    {<<R(-1, 10), R(1, 2)>>, <<R(1, 10), I(0)>>, <<R(1, 2), R(1, 2)>>,
     <<R(1, 2), I(1)>>, <<R(6, 5), I(0)>>}
CorrectionSzaGrid == {I(0), Div(pi, I(4)), Div(pi, I(2))}
KGrid == {R(1, 2), I(1), I(2)}
NiterationGrid == {0, 1, default_niteration}
WithSlopeArgs ==
    UNION {{[albedo |-> [j \in 1..W |-> e[j][1]],
             difftot |-> [j \in 1..W |-> e[j][2]],
             sza |-> sza, K |-> K, niteration |-> niteration] :
               e \in [1..W -> EntryGrid], sza \in CorrectionSzaGrid, K \in KGrid,
               niteration \in NiterationGrid} : W \in 1..MaxWl}
\* albedo_correction_without_slope: entries with difftot < albedo, which
\* give K > 0 (or NaN when no wavelength is in the visible band)
WithoutSlopeArgs ==
    UNION {{[wavelengths |-> wls,
             albedo |-> [j \in 1..W |-> e[j][1]],
             difftot |-> [j \in 1..W |-> e[j][2]],
             sza |-> sza, albedo_0 |-> default_albedo_0] :
               wls \in WavelengthSeqs(W),
               e \in [1..W -> {x \in EntryGrid : Lt(x[2], x[1])}],
               sza \in CorrectionSzaGrid} : W \in 1..MaxWl}

CorrectionInit ==
    /\ pc = "call"
    /\ \/ fn \in {s_with_slope, s_with_slope2} /\ args \in WithSlopeArgs
       \/ fn = s_without_slope /\ args \in WithoutSlopeArgs
    /\ ret = None
    /\ loc = None

\* lines 342-344 and 355-357
Call_albedo_correction_with_slope ==
    /\ pc = "call"
    /\ fn \in {s_with_slope, s_with_slope2}
    /\ loc' = frame(fn, args.albedo, args.difftot, args.sza, args.K,
                    args.niteration)
    /\ pc' = "loop"
    /\ UNCHANGED <<fn, args, ret>>

\* lines 332-336 and 342-344: K, then the call of
\* albedo_correction_with_slope with its default niteration
Call_albedo_correction_without_slope ==
    /\ pc = "call"
    /\ fn = s_without_slope
    /\ \E K \in {K_estimate(args)} :
           loc' = frame(s_with_slope, args.albedo, args.difftot, args.sza,
                        K, default_niteration)
    /\ pc' = "loop"
    /\ UNCHANGED <<fn, args, ret>>

\* lines 345-347 and 358-360: one pass of the loop
Iterate ==
    /\ pc = "loop"
    /\ range_has_next(loc.i, loc.niteration)
    /\ \E raw \in {update(loc)} : loc' = pass(loc, raw)
    /\ UNCHANGED <<pc, fn, args, ret>>

\* lines 349, 362 and 336: the loop is over
Return_correction ==
    /\ pc = "loop"
    /\ ~range_has_next(loc.i, loc.niteration)
    /\ \E returned \in {correction_return(loc)} :
           ret' = IF fn = s_without_slope
                  THEN [k |-> "tuple", K |-> loc.K, correction |-> returned]
                  ELSE returned
    /\ pc' = "done"
    /\ UNCHANGED <<fn, args, loc>>

CorrectionNext ==
    \/ Call_albedo_correction_with_slope
    \/ Call_albedo_correction_without_slope
    \/ Iterate
    \/ Return_correction

CorrectionSpec == CorrectionInit /\ [][CorrectionNext]_vars

\* a call runs to its end: the steps are those of one thread
CorrectionFairSpec == CorrectionSpec /\ WF_vars(CorrectionNext)

CorrectionDone ==
    pc = "done" /\ fn \in {s_with_slope, s_with_slope2, s_without_slope}

\* the diffuse albedo a finished call returned
ReturnedAlbedoDiff ==
    IF fn = s_without_slope THEN ret.correction.albedo_diff ELSE ret.albedo_diff
\* the niteration of the call: the default when reached through
\* albedo_correction_without_slope
NiterationOfCall ==
    IF fn = s_without_slope THEN default_niteration ELSE args.niteration
InCorrection == fn \in {s_with_slope, s_with_slope2, s_without_slope} /\ loc # None
Negative(x) == IsNum(x) /\ x.n < 0

\* C15: a call of albedo_correction_with_slope(2) starts from
\* min(albedo, 1), makes exactly niteration updates whatever the data (5
\* through albedo_correction_without_slope) and then returns; every update
\* leaves max(update, 0), so that after one update or more no entry of
\* the estimate, and none of the returned diffuse albedo, is negative.
C15_FixedIterationsClamped ==
    /\ [](InCorrection /\ loc.i = 0
            => \A j \in 1..Len(args.albedo) :
                   loc.albedo_diff[j] =
                       (IF IsNum(args.albedo[j]) /\ args.albedo[j].n > args.albedo[j].d
                        THEN I(1) ELSE args.albedo[j]))
    /\ [](InCorrection => loc.i <= NiterationOfCall)
    /\ [](InCorrection /\ loc.i >= 1
            => \A j \in 1..Len(args.albedo) :
                   /\ ~Negative(loc.albedo_diff[j])
                   /\ loc.albedo_diff[j] =
                          (IF Negative(loc.unclamped[j]) THEN I(0)
                           ELSE loc.unclamped[j]))
    /\ [](CorrectionDone
            => /\ loc.i = NiterationOfCall
               /\ ReturnedAlbedoDiff = loc.albedo_diff
               /\ (NiterationOfCall >= 1
                     => \A j \in 1..Len(args.albedo) :
                            ~Negative(ReturnedAlbedoDiff[j])))
    /\ <>CorrectionDone

\* a call that made the five updates of the default, the last of which
\* gave a negative value that the clamp replaced by 0
C15_Witness ==
    /\ CorrectionDone
    /\ loc.i = default_niteration
    /\ \E j \in 1..Len(args.albedo) :
           /\ Negative(loc.unclamped[j])
           /\ ReturnedAlbedoDiff[j] = I(0)

===========================================================================
